---- MODULE Spec2Model ----
(***************************************************************************)
(* Run orchestrator of Notebooks/vre_examples_helper.py (VreExample.run,   *)
(* VreExample.run_gpu_dynamic, VreExample._patch_external_device_param)    *)
(* and the notebook patcher of Notebooks/Example_10/utils.py.              *)
(*                                                                         *)
(* A configuration file's content is a record                              *)
(*   [kind, decl, nodes]                                                   *)
(* kind  : "absent" (no such file), "xml" (well formed), "garbage"         *)
(* decl  : the declaration line ("orig" as authored, "etree" as written by *)
(*         ElementTree.write(xml_declaration=True))                        *)
(* nodes : the element tree in document (pre-) order, each element a       *)
(*         record [tag, name, text, depth]; the root is element 1 at       *)
(*         depth 0 and the subtree of element i is the run of elements     *)
(*         after i whose depth is larger than that of i.                   *)
(***************************************************************************)
EXTENDS Integers, Sequences, FiniteSets, TLC

\* ------------------------------------------------------------------ bounds
MaxNodes == 4      \* elements per generated document (patcher specification)
MaxExtra == 2      \* length of the extra_xmls list

\* ------------------------------------------------- element tree (ElementTree)
DeviceNames == {"ExternalComputeDevice", "xvaCgExternalComputeDevice"}
BoolNames   == {"UseExternalComputeDevice", "xvaCgUseExternalComputeDevice"}

Node(tag, name, text, depth) ==
    [tag |-> tag, name |-> name, text |-> text, depth |-> depth]

\* Orders in which Python may iterate a two-element set of str (hash order).
SetOrders(S) == {s \in [1..2 -> S] : s[1] # s[2]}

\* root.iter("Parameter"): indices of all elements (root included) with that tag
IterParameter(nodes) == {i \in 1..Len(nodes) : nodes[i].tag = "Parameter"}

\* root.find(".//Parameters"): first proper descendant with that tag, 0 if None
FindParameters(nodes) ==
    LET hits == {i \in 2..Len(nodes) : nodes[i].tag = "Parameters"}
    IN  IF hits = {} THEN 0 ELSE CHOOSE i \in hits : \A j \in hits : i <= j

\* len(element) # 0, the truth value of an Element
HasChildren(nodes, i) ==
    i < Len(nodes) /\ nodes[i + 1].depth > nodes[i].depth

\* root.find(".//Parameters") or root
ParamsOrRoot(nodes) ==
    LET f == FindParameters(nodes)
    IN  IF f # 0 /\ HasChildren(nodes, f) THEN f ELSE 1

\* index of the last element of the subtree rooted at i
SubtreeEnd(nodes, i) ==
    CHOOSE j \in i..Len(nodes) :
        /\ \A k \in (i + 1)..j : nodes[k].depth > nodes[i].depth
        /\ (j = Len(nodes) \/ nodes[j + 1].depth <= nodes[i].depth)

\* ET.SubElement(parent, "Parameter", name=name).text = text
SubElement(nodes, parent, name, text) ==
    LET e == SubtreeEnd(nodes, parent)
    IN  SubSeq(nodes, 1, e)
          \o << Node("Parameter", name, text, nodes[parent].depth + 1) >>
          \o SubSeq(nodes, e + 1, Len(nodes))

\* for p in root.iter("Parameter"): if p.get("name") in names: p.text = value
SetAll(nodes, names, value) ==
    [i \in 1..Len(nodes) |->
        IF nodes[i].tag = "Parameter" /\ nodes[i].name \in names
        THEN [nodes[i] EXCEPT !.text = value] ELSE nodes[i]]

\* VreExample._patch_external_device_param, on the parsed tree.
\* order is the iteration order of the set `names`.
HelperPatchTree(nodes, device, order) ==
    LET changed_any ==
            \E i \in IterParameter(nodes) : nodes[i].name \in DeviceNames
        set    == SetAll(nodes, DeviceNames, device)
        params == ParamsOrRoot(set)
    IN  IF changed_any THEN set
        ELSE SubElement(SubElement(set, params, order[1], device),
                        params, order[2], device)

\* utils._ensure_parameter
ensure_parameter(nodes, name, value) ==
    LET hits == {i \in IterParameter(nodes) : nodes[i].name = name}
    IN  IF hits # {}
        THEN LET f == CHOOSE i \in hits : \A j \in hits : i <= j
             IN  [nodes EXCEPT ![f].text = value]
        ELSE SubElement(nodes, ParamsOrRoot(nodes), name, value)

\* utils._patch_external_device_param, on the parsed tree.
\* order / border are the iteration orders of `names` / `bool_names`.
UtilsPatchTree(nodes, device, order, border) ==
    LET s1 == SetAll(SetAll(nodes, DeviceNames, device), BoolNames, "true")
        s2 == ensure_parameter(ensure_parameter(s1, order[1], device), order[2], device)
    IN  ensure_parameter(ensure_parameter(s2, border[1], "true"), border[2], "true")

\* ------------------------------------------------ generated documents
ElemKinds ==
    {<<"Parameters", "">>, <<"Setup", "">>, <<"Parameter", "Other">>}
      \cup {<<"Parameter", n>> : n \in DeviceNames \cup BoolNames}

TextOf(kind) == IF kind[1] = "Parameter" THEN "old" ELSE ""

\* elements that may follow the root, and the root itself
ElemNodes ==
    {Node(k[1], k[2], TextOf(k), d) : k \in ElemKinds, d \in 1..(MaxNodes - 1)}

RootNode == Node("VRE", "", "", 0)

\* a pre-order listing is a tree iff no element is more than one level below
\* its predecessor
WellFormed(nodes) ==
    /\ nodes[1] = RootNode
    /\ \A i \in 2..Len(nodes) : nodes[i].depth <= nodes[i - 1].depth + 1

\* ------------------------------------------------ file contents
Absent  == [kind |-> "absent",  decl |-> "", nodes |-> << >>]
Garbage == [kind |-> "garbage", decl |-> "", nodes |-> << >>]
Xml(decl, nodes) == [kind |-> "xml", decl |-> decl, nodes |-> nodes]

\* ET.parse(xml_path) succeeds on well-formed files only
Parses(c) == c.kind = "xml"

\* tree.write(xml_path, encoding="utf-8", xml_declaration=True)
TreeWrite(nodes) == Xml("etree", nodes)

\* VreExample._patch_external_device_param(xml_path, device_str): new content
patch_external_device_param(c, device_str, order) ==
    TreeWrite(HelperPatchTree(c.nodes, device_str, order))

\* utils._patch_external_device_param(xml_path, device_str): new content
utils_patch_external_device_param(c, device_str, order, border) ==
    TreeWrite(UtilsPatchTree(c.nodes, device_str, order, border))

\* ------------------------------------------------ device detection
\* A probe environment: override = EXTERNAL_COMPUTE_DEVICE ("" when unset),
\* system = platform.system(), nvidia = outcome of the nvidia-smi query
\* (ok = FALSE when check_output raised err; lines = its stripped output
\* lines), ce = device names printed by the qle-core harness,
\* opencl = name of the first Apple OpenCL GPU ("" when pyopencl is missing or
\* finds none), brand = words of machdep.cpu.brand_string.
Words(b) == {b[i] : i \in 1..Len(b)}

\* the brand string itself: its words separated by blanks
RECURSIVE JoinWords(_)
JoinWords(b) ==
    IF b = << >> THEN ""
    ELSE IF Len(b) = 1 THEN b[1]
    ELSE b[1] \o " " \o JoinWords(Tail(b))

\* variant of FirstWith: the startswith test is dropped
FirstWith_AnyApi(devs, prefix) == IF devs = << >> THEN 0 ELSE 1

\* `for dev in devices: if dev.startswith(prefix): return dev`, 0 for no hit
FirstWith(devs, prefix) ==
    LET hits == {i \in 1..Len(devs) : devs[i].api = prefix}
    IN  IF hits = {} THEN 0 ELSE CHOOSE i \in hits : \A j \in hits : i <= j

\* outcome of a detection call: ok = FALSE means the call raised `error`;
\* branch names the code path that produced the tag; probes lists the
\* subprocesses the call launched, in order
Detected(branch, tag, probes) ==
    [ok |-> TRUE, tag |-> tag, error |-> "none", branch |-> branch,
     probes |-> probes]
Raised(error, probes) ==
    [ok |-> FALSE, tag |-> "", error |-> error, branch |-> "none",
     probes |-> probes]

\* variant of UseOverride: the override variable is never consulted
UseOverride_Never(override) == FALSE

\* `override = os.getenv("EXTERNAL_COMPUTE_DEVICE"); if override:`
UseOverride(override) == override # ""

\* variant of SwallowsProbeError: `except OSError` around the probe
SwallowsProbeError_OSErrorOnly(err) == err = "FileNotFoundError"

\* `except Exception` around a probe: the error kinds it swallows
SwallowsProbeError(err) ==
    err \in {"FileNotFoundError", "TimeoutExpired", "CalledProcessError"}

\* variant of CudaTag: the vendor part is left out
CudaTag_NoVendor(name) == "CUDA/" \o name

\* f"CUDA/NVIDIA/{name}"
CudaTag(name) == "CUDA/NVIDIA/" \o name

\* _nvidia_name(): first non-empty output line, "" for None; escaped = the
\* error of check_output when the except clause does not swallow it
nvidia_name(env) ==
    IF env.nvidia.ok
    THEN LET names == SelectSeq(env.nvidia.lines, LAMBDA l : l # "")
         IN  [name |-> IF names # << >> THEN names[1] ELSE "", escaped |-> "none"]
    ELSE IF SwallowsProbeError(env.nvidia.err)
         THEN [name |-> "", escaped |-> "none"]
         ELSE [name |-> "", escaped |-> env.nvidia.err]

\* the Linux branch, shared verbatim by both detectors
LinuxBranch(env) ==
    LET n == nvidia_name(env)
    IN  IF n.escaped # "none" THEN Raised(n.escaped, << "nvidia-smi" >>)
        ELSE IF n.name = "" THEN Raised("RuntimeError", << "nvidia-smi" >>)
        ELSE Detected("linux", CudaTag(n.name), << "nvidia-smi" >>)

\* sysctl -n machdep.cpu.brand_string inside try/except Exception: the words
\* of the brand string, << >> when the probe raised
BrandWords(env) == IF env.brandErr = "none" THEN env.brand ELSE << >>

\* VreExample._detect_external_device
detect_external_device(env) ==
    IF UseOverride(env.override) THEN Detected("override", env.override, << >>)
    ELSE IF env.system = "Linux" THEN LinuxBranch(env)
    ELSE IF env.system = "Darwin" THEN
        LET devices == IF env.harness = "ran" THEN env.ce ELSE << >>
            p1 == IF env.harness = "missing" THEN << >> ELSE << "qle-core" >>
            p2 == Append(p1, "sysctl")
            m == FirstWith(devices, "Metal/")
            o == FirstWith(devices, "OpenCL/")
        IN  IF m # 0 THEN Detected("harness", devices[m].tag, p1)
            ELSE IF o # 0 THEN Detected("harness", devices[o].tag, p1)
            ELSE IF env.opencl # ""
                 THEN Detected("opencl", "OpenCL/Apple/" \o env.opencl, p1)
            ELSE IF {"M4", "Max"} \subseteq Words(BrandWords(env))
                 THEN Detected("brand", "OpenCL/Apple/Apple M4 Max", p2)
            ELSE IF {"M3", "Ultra"} \subseteq Words(BrandWords(env))
                 THEN Detected("brand", "OpenCL/Apple/Apple M3 Ultra", p2)
            ELSE Raised("RuntimeError", p2)
    ELSE Raised("RuntimeError", << >>)

\* utils._detect_external_compute_device
utils_detect_external_compute_device(env) ==
    IF UseOverride(env.override) THEN Detected("override", env.override, << >>)
    ELSE IF env.system = "Linux" THEN LinuxBranch(env)
    ELSE IF env.system = "Darwin" THEN
        IF env.cl.gpu # ""
        THEN Detected("opencl",
                      "OpenCL/" \o env.cl.vendor \o "/" \o env.cl.gpu, << >>)
        ELSE IF Words(BrandWords(env)) \cap {"M4", "M3", "M2", "M1"} # {}
             THEN Detected("brand",
                           "Metal/Apple/Apple " \o JoinWords(BrandWords(env)),
                           << "sysctl" >>)
        ELSE Raised("RuntimeError", << "sysctl" >>)
    ELSE Raised("RuntimeError", << >>)

\* A host: harness = "missing" (no qle-core executable), "failed" (its run
\* raised) or "ran"; cl = vendor and GPU name of the first OpenCL platform
\* with a GPU (gpu = "" when there is none or pyopencl is missing);
\* brandErr = error raised by the sysctl probe, "none" when it ran.
HostEnv(override, system, nvidia, harness, ce, opencl, cl, brand, brandErr) ==
    [override |-> override, system |-> system, nvidia |-> nvidia,
     harness |-> harness, ce |-> ce, opencl |-> opencl, cl |-> cl,
     brand |-> brand, brandErr |-> brandErr]

Cl(vendor, gpu) == [vendor |-> vendor, gpu |-> gpu]

ProbeEnv(override, system, nvidia, ce, opencl, brand) ==
    HostEnv(override, system, nvidia,
            IF ce = << >> THEN "missing" ELSE "ran", ce,
            opencl, Cl("Apple", opencl), brand, "none")

NvidiaFailed(err) == [ok |-> FALSE, lines |-> << >>, err |-> err]
NvidiaOutput(lines) == [ok |-> TRUE, lines |-> lines, err |-> "none"]
NoNvidia == NvidiaFailed("FileNotFoundError")
Dev(api, tag) == [api |-> api, tag |-> tag]

\* Hosts on which the orchestrator is exercised.
RunProbeEnvs ==
    { ProbeEnv("OpenCL/Intel/Iris", "Windows", NoNvidia, << >>, "", << >>),
      ProbeEnv("", "Linux", NvidiaOutput(<<"A100", "A100">>), << >>, "", << >>),
      ProbeEnv("", "Linux", NoNvidia, << >>, "", << >>),
      ProbeEnv("", "Linux", NvidiaOutput(<< >>), << >>, "", << >>),
      ProbeEnv("", "Darwin", NoNvidia, << >>, "", <<"Apple", "M1">>),
      ProbeEnv("", "Windows", NoNvidia, << >>, "", << >>) }

\* ------------------------------------------------ executable locator
\* A path is its list of components; abs tells whether it starts at the root.
Abs(parts) == [abs |-> TRUE, parts |-> parts]
Rel(parts) == [abs |-> FALSE, parts |-> parts]
NoPath == Rel(<< >>)

\* os.path.normpath on the components of an absolute path
RECURSIVE Norm(_, _)
Norm(done, rest) ==
    IF rest = << >> THEN done
    ELSE IF Head(rest) = ".."
         THEN Norm(IF done = << >> THEN << >> ELSE SubSeq(done, 1, Len(done) - 1),
                   Tail(rest))
         ELSE Norm(Append(done, Head(rest)), Tail(rest))

\* os.path.abspath / dirname / join / relpath for a process whose working
\* directory is cwd
abspath(cwd, p) ==
    IF p.abs THEN Abs(Norm(<< >>, p.parts)) ELSE Abs(Norm(<< >>, cwd \o p.parts))
dirname(p) == [p EXCEPT !.parts = SubSeq(@, 1, Len(@) - 1)]
join(p, comps) == [p EXCEPT !.parts = @ \o comps]
relpath(cwd, p) ==
    LET a == abspath(cwd, p).parts
        same == {k \in 0..Len(cwd) :
                    k <= Len(a) /\ SubSeq(a, 1, k) = SubSeq(cwd, 1, k)}
        k == CHOOSE x \in same : \A y \in same : y <= x
    IN  Rel([i \in 1..(Len(cwd) - k) |-> ".."] \o SubSeq(a, k + 1, Len(a)))

RECURSIVE JoinWith(_, _)
JoinWith(parts, sep) ==
    IF parts = << >> THEN ""
    ELSE IF Len(parts) = 1 THEN parts[1]
    ELSE parts[1] \o sep \o JoinWith(Tail(parts), sep)

\* the string a path stands for under os.name
Sep(osname) == IF osname = "nt" THEN "\\" ELSE "/"
RootStr(osname) == IF osname = "nt" THEN "C:\\" ELSE "/"
PathStr(osname, p) ==
    IF p.abs THEN RootStr(osname) \o JoinWith(p.parts, Sep(osname))
    ELSE JoinWith(p.parts, Sep(osname))

\* A host: osname = os.name, machine = platform.machine(), cwd = working
\* directory, files = absolute paths of the regular files, manifest = state of
\* CMakePresets.json ("absent", "garbage" or its configurePresets list).
exe_isfile(h, p) == abspath(h.cwd, p).parts \in h.files
exe_isdir(h, p) ==
    LET d == abspath(h.cwd, p).parts
    IN  \E f \in h.files : Len(f) > Len(d) /\ SubSeq(f, 1, Len(d)) = d
listdir(h, p) ==
    LET d == abspath(h.cwd, p).parts
    IN  {f[Len(d) + 1] : f \in {g \in h.files :
                                  Len(g) > Len(d) /\ SubSeq(g, 1, Len(d)) = d}}

\* repo_root = abspath(join(dirname(__file__), os.pardir))
repo_root == Abs(<< "repo" >>)
exe_name(osname) == IF osname = "nt" THEN "vre.exe" ELSE "vre"

\* outcome of one resolution step: the path stored in self.vre_exe
Found(via, path) == [found |-> TRUE, via |-> via, path |-> path]
NotFound == [found |-> FALSE, via |-> "none", path |-> NoPath]

\* `if env_vre and os.path.isfile(env_vre)`
TryOverride(h, env) ==
    IF env.VRE_EXECUTABLE # NoPath /\ exe_isfile(h, env.VRE_EXECUTABLE)
    THEN Found("override", env.VRE_EXECUTABLE)
    ELSE NotFound

\* VRE_CMAKE_PRESET or CMAKE_BUILD_PRESET or CMAKE_PRESET
preset_name(env) ==
    IF env.VRE_CMAKE_PRESET # "" THEN env.VRE_CMAKE_PRESET
    ELSE IF env.CMAKE_BUILD_PRESET # "" THEN env.CMAKE_BUILD_PRESET
    ELSE env.CMAKE_PRESET

\* the preset step; a manifest that cannot be read as presets raises inside
\* the try block and the step yields nothing
TryPreset(h, env) ==
    IF preset_name(env) = "" \/ h.manifest.kind # "presets" THEN NotFound
    ELSE LET ps == h.manifest.configurePresets
             hits == {i \in 1..Len(ps) : ps[i].name = preset_name(env)}
         IN  IF hits = {} THEN NotFound
             ELSE LET p == ps[CHOOSE i \in hits : \A j \in hits : i <= j]
                  IN  IF p.binaryDir = << >> THEN NotFound
                      ELSE LET candidate ==
                                   join(repo_root, p.binaryDir
                                        \o << "App", exe_name(h.osname) >>)
                           IN  IF exe_isfile(h, candidate)
                               THEN Found("preset", relpath(h.cwd, candidate))
                               ELSE NotFound

\* directory entries in the order sorted() gives them
SortedNames == << "App", "README", "debug", "release" >>

\* variant of sorted: the listing is walked in reverse order
sorted_Reversed(names) ==
    LET up == SelectSeq(SortedNames, LAMBDA n : n \in names)
    IN  [i \in 1..Len(up) |-> up[Len(up) + 1 - i]]

\* sorted(os.listdir(build_root))
sorted(names) == SelectSeq(SortedNames, LAMBDA n : n \in names)

\* the build-directory scan
TryScan(h) ==
    LET build_root == join(repo_root, << "build" >>)
        Candidate(sub) == join(build_root, << sub, "App", exe_name(h.osname) >>)
        hits == SelectSeq(sorted(listdir(h, build_root)),
                          LAMBDA sub : /\ exe_isdir(h, join(build_root, << sub >>))
                                       /\ exe_isfile(h, Candidate(sub)))
    IN  IF ~exe_isdir(h, build_root) \/ hits = << >> THEN NotFound
        ELSE Found("scan", relpath(h.cwd, Candidate(Head(hits))))

\* the fixed relative paths of the legacy search, in the order tried
LegacyLadder(osname, machine) ==
    IF osname = "nt" THEN
        IF machine = "64" THEN
            << << "..", "..", "App", "bin", "x64", "Release", "vre.exe" >>,
               << "..", "..", "..", "App", "bin", "x64", "Release", "vre.exe" >>,
               << "..", "..", "build", "App", "vre.exe" >>,
               << "..", "..", "..", "build", "App", "vre.exe" >>,
               << "..", "..", "..", "build", "vre", "App", "vre.exe" >>,
               << "..", "..", "..", "..", "build", "vre", "App", "vre.exe" >>,
               << "..", "..", "..", "build", "vre", "App", "RelWithDebInfo", "vre.exe" >>,
               << "..", "..", "..", "..", "build", "vre", "App", "RelWithDebInfo", "vre.exe" >>,
               << "..", "..", "build", "App", "Release", "vre.exe" >>,
               << "..", "..", "..", "build", "App", "Release", "vre.exe" >> >>
        ELSE
            << << "..", "..", "App", "bin", "Win32", "Release", "vre.exe" >>,
               << "..", "..", "..", "App", "bin", "Win32", "Release", "vre.exe" >>,
               << "..", "..", "build", "App", "vre.exe" >>,
               << "..", "..", "..", "build", "App", "vre.exe" >> >>
    ELSE
        << << "..", "..", "App", "build", "vre" >>,
           << "..", "..", "..", "App", "build", "vre" >>,
           << "..", "..", "build", "App", "vre" >>,
           << "..", "..", "..", "build", "App", "vre" >>,
           << "..", "..", "..", "build", "App", "vre" >>,
           << "..", "..", "..", "..", "build", "App", "vre" >>,
           << "..", "..", "App", "vre" >>,
           << "..", "..", "..", "App", "vre" >>,
           << "..", "..", "..", "build", "vre", "App", "vre" >>,
           << "..", "..", "..", "..", "build", "vre", "App", "vre" >> >>

\* the legacy search: first path of the ladder that is a file
TryLegacy(h) ==
    LET ladder == LegacyLadder(h.osname, h.machine)
        hits == {i \in 1..Len(ladder) : exe_isfile(h, Rel(ladder[i]))}
    IN  IF hits = {} THEN NotFound
        ELSE Found("legacy", Rel(ladder[CHOOSE i \in hits : \A j \in hits : i <= j]))

\* variant of ResolutionOrder: the preset is consulted before the override
ResolutionOrder_PresetFirst == << "preset", "override", "scan", "legacy" >>

\* the order in which _locate_vre_exe tries its sources
ResolutionOrder == << "override", "preset", "scan", "legacy" >>

Try(step, h, env) ==
    IF step = "override" THEN TryOverride(h, env)
    ELSE IF step = "preset" THEN TryPreset(h, env)
    ELSE IF step = "scan" THEN TryScan(h)
    ELSE TryLegacy(h)

\* first source, in resolution order, that yields an existing file
Resolve(h, env) ==
    LET hits == {i \in 1..Len(ResolutionOrder) : Try(ResolutionOrder[i], h, env).found}
    IN  IF hits = {} THEN NotFound
        ELSE Try(ResolutionOrder[CHOOSE i \in hits : \A j \in hits : i <= j], h, env)

\* the override, preset and scan branches `return`; only the legacy search
\* falls through to the DYLD_LIBRARY_PATH block
ReachesPreparation(via) == via = "legacy"

\* variant of LegacyMiss: the else branches print but do not quit()
LegacyMiss_Continue == "prepare"

\* the else branch of each ladder: print and quit()
LegacyMiss == "quit"

\* variant of Dedup: later duplicates are kept
Dedup_KeepAll(paths) == paths

\* the de-duplication loop: first occurrence of each entry, in order
Dedup(paths) ==
    LET firsts == {i \in 1..Len(paths) : \A j \in 1..(i - 1) : paths[j] # paths[i]}
        F[i \in 0..Len(paths)] ==
            IF i = 0 THEN << >>
            ELSE IF i \in firsts THEN Append(F[i - 1], paths[i]) ELSE F[i - 1]
    IN  F[Len(paths)]

\* The value of a path-list variable is kept as its ":"-separated fields:
\* Unset when the variable is missing, << "" >> for the empty string.
Unset == [set |-> FALSE, fields |-> << >>]
Value(fields) == [set |-> TRUE, fields |-> fields]

\* lines 220-254: the new value of DYLD_LIBRARY_PATH for self.vre_exe = exe
dyld_paths(h, env, exe) ==
    LET exe_abs == abspath(h.cwd, exe)
        exe_dir == dirname(exe_abs)
        library_root == abspath(h.cwd, join(exe_dir, << ".." >>))
        current == env.DYLD_LIBRARY_PATH
        inherited_ == IF current.set /\ current.fields # << "" >>
                      THEN SelectSeq(current.fields, LAMBDA f : f # "")
                      ELSE << >>
    IN  Dedup(<< PathStr(h.osname, exe_dir), PathStr(h.osname, library_root) >>
              \o inherited_)

\* VreExample.__init__ with _locate_vre_exe: the object's fields, the process
\* environment afterwards, and whether the interpreter was asked to exit
construct(h, env, d) ==
    IF env.VRE_EXAMPLES_USE_PYTHON.set
    THEN [dry |-> d, use_python |-> (env.VRE_EXAMPLES_USE_PYTHON.fields = << "1" >>),
          vre_exe |-> "", environ |-> env, exit |-> FALSE, located |-> NotFound]
    ELSE LET r == Resolve(h, env)
             base == [dry |-> d, use_python |-> FALSE,
                      vre_exe |-> PathStr(h.osname, r.path),
                      environ |-> env, exit |-> FALSE, located |-> r]
         IN  IF ~r.found /\ LegacyMiss = "quit" THEN [base EXCEPT !.exit = TRUE]
             ELSE IF r.found /\ ~ReachesPreparation(r.via) THEN base
             ELSE [base EXCEPT !.environ.DYLD_LIBRARY_PATH =
                                   Value(dyld_paths(h, env, r.path))]

\* ------------------------------------------------ orchestrator state
VARIABLES
    fs,           \* file system: path -> content
    dry,          \* VreExample.dry
    use_python,   \* VreExample.use_python
    vre_exe,      \* VreExample.vre_exe
    pc,           \* position: "idle", "detect", "loop", "patch", "finally", "done"
    call,         \* entry point in progress: "none", "run", "run_gpu_dynamic"
    main_xml,     \* argument main_xml (xml for run)
    extra_xmls,   \* argument extra_xmls
    probe,        \* host environment seen by device detection
    device,       \* local `device`
    idx,          \* position of the patch loop in xmls
    backups,      \* local `backups`: sequence of <<rel, bak>>
    ridx,         \* position of the restore loop in backups
    pending,      \* exception in flight
    result,       \* "none", "None", "True", "False", "raised"
    launches,     \* subprocess.call invocations: [argv, started, code]
    pre,          \* file system at the time of the call
    log,          \* events of the call in order: [ev, path]
    restoreFault, \* some shutil.move of the restore loop raised
    pin, pout, pfn, \* patcher specification: input tree, output tree, function
    det,          \* detector specification: detector called and its outcome
    host,         \* locator specification: the machine the object is built on
    environ,      \* os.environ
    inherited,    \* os.environ when the process started
    located,      \* resolution step that set self.vre_exe
    wrappers,     \* which vre_wrapper.py scripts run() found to exist
    pricing_engine_xml, \* argument pricing_engine_xml of prepare_gpu_xml
    env_vars,     \* argument vars of env(): sequence of <<name, value>>
    env_prev,     \* local `prev` of env()
    cwd,          \* os.getcwd()
    example,      \* run_example: its argument
    current_dir,  \* run_example: the local of that name
    exit_code     \* run_example: the local of that name, unbound until assigned

vars == << fs, dry, use_python, vre_exe, pc, call, main_xml, extra_xmls,
           probe, device, idx, backups, ridx, pending, result, launches, pre, log,
           restoreFault, pin, pout, pfn, det, host, environ, inherited, located,
           wrappers, pricing_engine_xml, env_vars, env_prev, cwd, example,
                 current_dir, exit_code >>

Files    == {"a.xml", "b.xml"}
Bak(rel) == rel \o ".bak_gpu_patch"
AllPaths == Files \cup {Bak(f) : f \in Files}
ArgPaths == Files \cup {""}

isfile(path) == path \in AllPaths /\ fs[path].kind # "absent"

NoExc == [type |-> "none", carried |-> {}]
Exc(type) == [type |-> type, carried |-> {}]

ExitCodes == {-9, 0, 1, 3}
LocatedExe == "../../build/App/vre"
Python == "python"

TreeNone   == << RootNode, Node("Setup", "", "", 1),
                 Node("Parameter", "Other", "old", 2) >>
TreeDevice == << RootNode, Node("Parameters", "", "", 1),
                 Node("Parameter", "ExternalComputeDevice", "old", 2) >>
TreeStale  == << RootNode >>

\* n is the position in `backups` of the transaction the event belongs to
Event(ev, path, n) == [ev |-> ev, path |-> path, n |-> n]

\* a local variable that holds v, or one never assigned
Bound(v) == [bound |-> TRUE, v |-> v]
Unbound == [bound |-> FALSE, v |-> 0]

NoWrappers == [near |-> FALSE, far |-> FALSE]

\* variant of ShouldLaunch: the dry flag is not consulted
ShouldLaunch_Always(d) == TRUE

\* VreExample.run: `if not self.dry:`
ShouldLaunch(d) == ~d
NoProbe == ProbeEnv("", "", NoNvidia, << >>, "", << >>)
NoDet == [fn |-> "none", out |-> Raised("none", << >>)]

Cwd == << "repo", "Notebooks", "Example_10" >>
Host(osname, machine, files, manifest) ==
    [osname |-> osname, machine |-> machine, cwd |-> Cwd, files |-> files,
     manifest |-> manifest]
Environ(usePy, exe, presets, dyld) ==
    [VRE_EXAMPLES_USE_PYTHON |-> usePy, VRE_EXECUTABLE |-> exe,
     VRE_CMAKE_PRESET |-> presets[1], CMAKE_BUILD_PRESET |-> presets[2],
     CMAKE_PRESET |-> presets[3], DYLD_LIBRARY_PATH |-> dyld,
     PATH |-> Value(<< "/usr/bin", "/bin" >>)]
NoManifest == [kind |-> "absent", configurePresets |-> << >>]
NoHost == Host("posix", "64", {}, NoManifest)
NoEnviron == Environ(Unset, NoPath, << "", "", "" >>, Unset)
LocatorIdle ==
    /\ host = NoHost /\ environ = NoEnviron /\ inherited = NoEnviron
    /\ located = NotFound
\* an argument left out (None) or given as the empty string
NoArg == [dir |-> "", stem |-> "", suffix |-> ""]
ScriptIdle ==
    /\ pricing_engine_xml = NoArg /\ env_vars = << >> /\ env_prev = << >>
    /\ cwd = Cwd /\ example = "" /\ current_dir = << >>
    /\ exit_code = Unbound

\* VreExample.__init__(dry) for VRE_EXAMPLES_USE_PYTHON = usePy ("" when unset)
ConstructorFields(d, usePy) ==
    IF usePy # ""
    THEN [dry |-> d, use_python |-> (usePy = "1"), vre_exe |-> ""]
    ELSE [dry |-> d, use_python |-> FALSE, vre_exe |-> LocatedExe]

Init ==
    /\ \E ca \in {Xml("orig", TreeNone), Xml("orig", TreeDevice), Garbage},
          cb \in {Xml("orig", TreeDevice), Garbage, Absent},
          sa \in {Absent, Xml("orig", TreeStale)} :
         fs = [p \in AllPaths |->
                 IF p = "a.xml" THEN ca
                 ELSE IF p = "b.xml" THEN cb
                 ELSE IF p = Bak("a.xml") THEN sa
                 ELSE Absent]
    /\ \E d \in BOOLEAN, usePy \in {"", "1", "0"} :
         LET o == ConstructorFields(d, usePy)
         IN  dry = o.dry /\ use_python = o.use_python /\ vre_exe = o.vre_exe
    /\ pc = "idle" /\ call = "none"
    /\ main_xml = "" /\ extra_xmls = << >>
    /\ probe = NoProbe
    /\ device = "" /\ idx = 0 /\ backups = << >> /\ ridx = 0
    /\ pending = NoExc /\ result = "none"
    /\ launches = << >> /\ pre = fs /\ log = << >>
    /\ det = NoDet /\ LocatorIdle
    /\ restoreFault = FALSE /\ wrappers = NoWrappers /\ ScriptIdle
    /\ pin = << >> /\ pout = << >> /\ pfn = "none"

\* subprocess.call(argv): the child runs and exits with `code`, or the spawn
\* itself raises OSError (started = FALSE); an empty program name cannot spawn.
Launch(argv, started, code) ==
    [argv |-> argv, started |-> started, code |-> code]

\* variant of ReturnCodeNotNull: `if res > 0`
ReturnCodePositive(res) == res > 0

\* VreExample.run: `if res != 0`
ReturnCodeNotNull(res) == res # 0

\* variant of EngineArgv: the configuration path is not passed on
EngineArgv_NoConfig(exe, xml) == << exe >>

\* VreExample.run: the argument list handed to subprocess.call
EngineArgv(exe, xml) == << exe, xml >>
WrapperArgv(wrapper, xml) == << Python, wrapper, xml >>

\* variant of wrapper_path: the script two levels up is tried first
wrapper_path_FarFirst(near, far) ==
    IF far THEN "../../vre_wrapper.py" ELSE "../vre_wrapper.py"

\* the if/elif over os.path.isfile in wrapper mode: the script that is started
wrapper_path(near, far) ==
    IF near THEN "../vre_wrapper.py" ELSE "../../vre_wrapper.py"

\* os.path.isfile is asked about the wrapper scripts only in python mode
WrapperChecks == IF use_python THEN BOOLEAN ELSE {FALSE}

\* VreExample.run(xml): effect on launches, log and the exception in flight.
\* near/far: ../vre_wrapper.py resp. ../../vre_wrapper.py is a file.
run(xml) ==
    IF ~ShouldLaunch(dry) THEN
        /\ launches' = launches /\ pending' = NoExc /\ log' = log
        /\ wrappers' = wrappers
    ELSE \E near \in WrapperChecks, far \in WrapperChecks, started \in BOOLEAN :
      \E code \in IF started THEN ExitCodes ELSE {0} :
        LET argv == IF use_python
                    THEN WrapperArgv(wrapper_path(near, far), xml)
                    ELSE EngineArgv(vre_exe, xml)
        IN  /\ wrappers' = IF use_python THEN [near |-> near, far |-> far]
                           ELSE wrappers
            /\ IF use_python /\ ~near /\ ~far THEN
                   \* neither branch assigns res: `if res != 0` raises
                   /\ launches' = launches
                   /\ pending' = Exc("UnboundLocalError")
                   /\ log' = log
               ELSE IF ~started \/ argv[1] = "" THEN
                   /\ launches' = Append(launches, Launch(argv, FALSE, 0))
                   /\ pending' = Exc("OSError")
                   /\ log' = Append(log, Event("launch", xml, 0))
               ELSE
                   /\ launches' = Append(launches, Launch(argv, TRUE, code))
                   /\ pending' = IF ReturnCodeNotNull(code)
                                 THEN Exc("Exception") ELSE NoExc
                   /\ log' = log \o << Event("launch", xml, 0), Event("exit", xml, 0) >>

OrchUnchanged ==
    UNCHANGED << dry, use_python, vre_exe, pin, pout, pfn, det, host, environ,
                 inherited, located, pricing_engine_xml, env_vars, env_prev,
                 cwd, example,
                 current_dir, exit_code >>

\* a script calls vreex.run(xml)
CallRun ==
    /\ pc = "idle"
    /\ \E xml \in ArgPaths :
         /\ main_xml' = xml
         /\ run(xml)
    /\ call' = "run"
    /\ pc' = "done"
    /\ result' = IF pending'.type = "none" THEN "None" ELSE "raised"
    /\ OrchUnchanged
    /\ UNCHANGED << fs, extra_xmls, probe, device, idx, backups, ridx, pre,
                    restoreFault >>

\* a script calls vreex.run_gpu_dynamic(main_xml, extra_xmls)
CallGpu ==
    /\ pc = "idle"
    /\ \E m \in ArgPaths, n \in 0..MaxExtra :
         \E ex \in [1..n -> ArgPaths] :
            main_xml' = m /\ extra_xmls' = ex
    /\ call' = "run_gpu_dynamic"
    /\ pc' = "detect"
    /\ pre' = fs
    /\ OrchUnchanged
    /\ UNCHANGED wrappers
    /\ UNCHANGED << fs, probe, device, idx, backups, ridx, pending, result,
                    launches, log, restoreFault >>

xmls == << main_xml >> \o extra_xmls

\* variant of AfterDetect: the except branch logs but does not return
AfterDetect_FallThrough(d) == [pc |-> "loop", result |-> "none"]

\* run_gpu_dynamic, try/except around detection: where control goes
AfterDetect(d) ==
    IF d.ok THEN [pc |-> "loop", result |-> "none"]
    ELSE [pc |-> "done", result |-> "False"]

\* run_gpu_dynamic, device detection (try/except RuntimeError)
Detect ==
    /\ pc = "detect"
    /\ \E env \in RunProbeEnvs :
         LET d == detect_external_device(env)
         IN  /\ probe' = env
             /\ pc' = AfterDetect(d).pc
             /\ result' = AfterDetect(d).result
             /\ device' = IF pc' = "loop" THEN d.tag ELSE device
             /\ idx' = IF pc' = "loop" THEN 1 ELSE idx
    /\ OrchUnchanged
    /\ UNCHANGED wrappers
    /\ UNCHANGED << fs, call, main_xml, extra_xmls, backups, ridx, pending,
                    launches, pre, log, restoreFault >>

\* variant of Skipped: missing files are not tolerated
Skipped_EmptyOnly(rel) == rel = ""

\* `if not rel: continue` and `if not os.path.isfile(rel): continue`
Skipped(rel) == rel = "" \/ ~isfile(rel)

\* run_gpu_dynamic, one iteration of `for rel in xmls` up to backups.append
BackupStep ==
    /\ pc = "loop" /\ idx <= Len(xmls)
    /\ LET rel == xmls[idx]
           bak == Bak(rel)
       IN  IF Skipped(rel)
           THEN /\ idx' = idx + 1
                /\ UNCHANGED << fs, backups, pc, log >>
           ELSE \* os.remove(bak) if it exists, then shutil.copy2(rel, bak)
                /\ fs' = [fs EXCEPT ![bak] = fs[rel]]
                /\ backups' = Append(backups, << rel, bak >>)
                /\ log' = Append(log, Event("backup", rel, Len(backups) + 1))
                /\ pc' = "patch"
                /\ idx' = idx
    /\ OrchUnchanged
    /\ UNCHANGED wrappers
    /\ UNCHANGED << call, main_xml, extra_xmls, probe, device, ridx, pending,
                    result, launches, pre, restoreFault >>

\* run_gpu_dynamic, self._patch_external_device_param(rel, device)
PatchStep ==
    /\ pc = "patch"
    /\ LET rel == xmls[idx]
       IN  IF Parses(fs[rel])
           THEN /\ \E order \in SetOrders(DeviceNames) :
                     fs' = [fs EXCEPT ![rel] =
                              patch_external_device_param(fs[rel], device, order)]
                /\ log' = Append(log, Event("write", rel, Len(backups)))
                /\ idx' = idx + 1
                /\ pc' = "loop"
                /\ UNCHANGED << pending, ridx >>
           ELSE /\ pending' = Exc("ParseError")
                /\ ridx' = 1
                /\ pc' = "finally"
                /\ UNCHANGED << fs, log, idx >>
    /\ OrchUnchanged
    /\ UNCHANGED wrappers
    /\ UNCHANGED << call, main_xml, extra_xmls, probe, device, backups, result,
                    launches, pre, restoreFault >>

\* run_gpu_dynamic, self.run(main_xml) after the loop
Invoke ==
    /\ pc = "loop" /\ idx > Len(xmls)
    /\ run(main_xml)
    /\ ridx' = 1
    /\ pc' = "finally"
    /\ OrchUnchanged
    /\ UNCHANGED << fs, call, main_xml, extra_xmls, probe, device, idx, backups,
                    result, pre, restoreFault >>

\* variant of RestorePos: `for rel, bak in reversed(backups)`
RestorePos_Reversed(bs, r) == Len(bs) + 1 - r

\* variant of SwallowRestoreError: the move is not guarded by try/except
RestoreErrorEscapes(p) == Exc("OSError")

\* finally block, `for rel, bak in backups`: entry visited by the r-th iteration
RestorePos(bs, r) == r

\* finally block, `except Exception: pass`: the exception in flight afterwards
SwallowRestoreError(p) == p

\* run_gpu_dynamic, one iteration of the restore loop of the finally block
RestoreStep ==
    /\ pc = "finally" /\ ridx <= Len(backups)
    /\ LET n   == RestorePos(backups, ridx)
           rel == backups[n][1]
           bak == backups[n][2]
       IN  IF isfile(bak)
           THEN \/ \* shutil.move(bak, rel)
                   /\ fs' = [fs EXCEPT ![rel] = fs[bak], ![bak] = Absent]
                   /\ log' = Append(log, Event("restore", rel, n))
                   /\ UNCHANGED << restoreFault, pending >>
                \/ \* shutil.move raised
                   /\ restoreFault' = TRUE
                   /\ pending' = SwallowRestoreError(pending)
                   /\ log' = Append(log, Event("restore_failed", rel, n))
                   /\ UNCHANGED fs
           ELSE UNCHANGED << fs, log, restoreFault, pending >>
    /\ ridx' = ridx + 1
    /\ OrchUnchanged
    /\ UNCHANGED wrappers
    /\ UNCHANGED << pc, call, main_xml, extra_xmls, probe, device, idx, backups,
                    result, launches, pre >>

\* variant of FinallyDone: the restore loop is not in a finally block, so an
\* exception leaves the function at once
FinallyDone_Unprotected(r, bs, p) == r > Len(bs) \/ p # NoExc

\* try/finally: control leaves the function once the restore loop is through
FinallyDone(r, bs, p) == r > Len(bs)

\* run_gpu_dynamic, end of the finally block: re-raise or `return True`
Finish ==
    /\ pc = "finally" /\ FinallyDone(ridx, backups, pending)
    /\ result' = IF pending.type = "none" THEN "True" ELSE "raised"
    /\ pc' = "done"
    /\ OrchUnchanged
    /\ UNCHANGED wrappers
    /\ UNCHANGED << fs, call, main_xml, extra_xmls, probe, device, idx, backups,
                    ridx, pending, launches, pre, log, restoreFault >>

\* ------------------------------------------------ patcher specification
PatchDevice == "CUDA/NVIDIA/A100"

InitPatch ==
    /\ \E n \in 0..(MaxNodes - 1) :
         \E rest \in [1..n -> ElemNodes] :
            /\ WellFormed(<< RootNode >> \o rest)
            /\ pin = << RootNode >> \o rest
    /\ pout = << >> /\ pfn = "none"
    /\ fs = [p \in AllPaths |-> Absent]
    /\ dry = FALSE /\ use_python = FALSE /\ vre_exe = LocatedExe
    /\ pc = "idle" /\ call = "none"
    /\ main_xml = "" /\ extra_xmls = << >>
    /\ probe = NoProbe
    /\ device = PatchDevice /\ idx = 0 /\ backups = << >> /\ ridx = 0
    /\ pending = NoExc /\ result = "none"
    /\ launches = << >> /\ pre = fs /\ log = << >>
    /\ det = NoDet /\ LocatorIdle
    /\ restoreFault = FALSE /\ wrappers = NoWrappers /\ ScriptIdle

PatchUnchanged ==
    UNCHANGED << fs, dry, use_python, vre_exe, pc, call, main_xml, extra_xmls,
                 probe, device, idx, backups, ridx, pending, result, launches,
                 pre, log, restoreFault, pin, det, host, environ, inherited,
                 located, wrappers, pricing_engine_xml, env_vars, env_prev,
                 cwd, example,
                 current_dir, exit_code >>

\* VreExample._patch_external_device_param applied to a parsed document
ApplyHelper ==
    /\ pfn = "none"
    /\ \E order \in SetOrders(DeviceNames) :
         pout' = patch_external_device_param(Xml("orig", pin), device, order).nodes
    /\ pfn' = "helper"
    /\ PatchUnchanged

\* utils._patch_external_device_param applied to a parsed document
ApplyUtils ==
    /\ pfn = "none"
    /\ \E order \in SetOrders(DeviceNames), border \in SetOrders(BoolNames) :
         pout' = utils_patch_external_device_param(Xml("orig", pin), device,
                                                   order, border).nodes
    /\ pfn' = "utils"
    /\ PatchUnchanged

NextPatch ==
    \/ ApplyHelper
    \/ ApplyUtils

SpecPatch == InitPatch /\ [][NextPatch]_vars

\* ------------------------------------------------ detector specification
Overrides == {"", "gpu0", "OpenCL/Intel/Iris"}
Systems == {"Linux", "Darwin", "Windows"}
NvidiaOutcomes ==
    {NvidiaFailed(e) :
        e \in {"FileNotFoundError", "TimeoutExpired", "CalledProcessError"}}
    \cup {NvidiaOutput(l) : l \in {<< >>, <<"A100">>, <<"H100", "A100">>,
                                   <<"", "A100">>}}
HarnessOutcomes ==
    { [harness |-> "missing", ce |-> << >>],
      [harness |-> "failed", ce |-> << >>],
      [harness |-> "ran", ce |-> << >>],
      [harness |-> "ran", ce |-> << Dev("Basic/", "Basic/Default/Default") >>],
      [harness |-> "ran", ce |-> << Dev("OpenCL/", "OpenCL/Apple/Apple M2"),
                                    Dev("Metal/", "Metal/Apple M2") >>],
      [harness |-> "ran", ce |-> << Dev("Basic/", "Basic/Default/Default"),
                                    Dev("OpenCL/", "OpenCL/Apple/Apple M2") >>] }
OpenClOutcomes ==
    { [opencl |-> "", cl |-> Cl("", "")],
      [opencl |-> "Apple M2", cl |-> Cl("Apple", "Apple M2")],
      [opencl |-> "", cl |-> Cl("Intel(R) Corporation", "Iris")] }
BrandOutcomes ==
    { [brand |-> << >>, brandErr |-> "FileNotFoundError"],
      [brand |-> << >>, brandErr |-> "none"],
      [brand |-> <<"Apple", "M4", "Max">>, brandErr |-> "none"],
      [brand |-> <<"Apple", "M3", "Ultra">>, brandErr |-> "none"],
      [brand |-> <<"Apple", "M1">>, brandErr |-> "none"],
      [brand |-> <<"Intel(R)", "Core(TM)", "i9">>, brandErr |-> "none"] }

InitDetect ==
    /\ \E o \in Overrides, sys \in Systems, nv \in NvidiaOutcomes,
          h \in HarnessOutcomes, c \in OpenClOutcomes, b \in BrandOutcomes :
         probe = HostEnv(o, sys, nv, h.harness, h.ce, c.opencl, c.cl,
                         b.brand, b.brandErr)
    /\ det = NoDet /\ LocatorIdle
    /\ pin = << RootNode >> /\ pout = << >> /\ pfn = "none"
    /\ fs = [p \in AllPaths |-> Absent]
    /\ dry = FALSE /\ use_python = FALSE /\ vre_exe = LocatedExe
    /\ pc = "idle" /\ call = "none"
    /\ main_xml = "" /\ extra_xmls = << >>
    /\ device = "" /\ idx = 0 /\ backups = << >> /\ ridx = 0
    /\ pending = NoExc /\ result = "none"
    /\ launches = << >> /\ pre = fs /\ log = << >>
    /\ restoreFault = FALSE /\ wrappers = NoWrappers /\ ScriptIdle

DetectUnchanged ==
    UNCHANGED << fs, dry, use_python, vre_exe, pc, call, main_xml, extra_xmls,
                 probe, device, idx, backups, ridx, pending, result, launches,
                 pre, log, restoreFault, pin, pout, pfn, host, environ,
                 inherited, located, wrappers, pricing_engine_xml, env_vars,
                 env_prev, cwd, example,
                 current_dir, exit_code >>

\* VreExample._detect_external_device called on the host
DetectHelper ==
    /\ det.fn = "none"
    /\ det' = [fn |-> "helper", out |-> detect_external_device(probe)]
    /\ DetectUnchanged

\* utils._detect_external_compute_device called on the host
DetectUtils ==
    /\ det.fn = "none"
    /\ det' = [fn |-> "utils", out |-> utils_detect_external_compute_device(probe)]
    /\ DetectUnchanged

NextDetect ==
    \/ DetectHelper
    \/ DetectUtils

SpecDetect == InitDetect /\ [][NextDetect]_vars

\* ------------------------------------------------ locator specification
MaxFiles == 2

OsKinds == { << "posix", "64" >>, << "nt", "64" >>, << "nt", "32" >> }
FileUniverse(osname) ==
    { << "opt", "vre", "bin", exe_name(osname) >>,
      << "repo", "build", "release", "App", exe_name(osname) >>,
      << "repo", "build", "debug", "App", exe_name(osname) >>,
      << "repo", "build", "App", exe_name(osname) >>,
      << "repo", "build", "README" >> }
ExeOverrides(osname) ==
    { NoPath, Abs(<< "opt", "vre", "bin", exe_name(osname) >>),
      Abs(<< "missing", exe_name(osname) >>) }
Preset(name, binaryDir) == [name |-> name, binaryDir |-> binaryDir]
Manifests ==
    { NoManifest,
      [kind |-> "garbage", configurePresets |-> << >>],
      [kind |-> "presets",
       configurePresets |-> << Preset("debug", << >>),
                               Preset("release", << "build", "release" >>),
                               Preset("release", << "build", "debug" >>) >>] }
PresetVars ==
    { << "", "", "" >>, << "", "", "release" >>, << "debug", "release", "" >> }
InheritedDyld ==
    { Unset, Value(<< "/x", "/y" >>),
      Value(<< "/x", "", "/repo/build/App", "/x" >>) }

InitLocate ==
    /\ \E os \in OsKinds, m \in Manifests :
         \E fl \in SUBSET FileUniverse(os[1]) :
            /\ Cardinality(fl) <= MaxFiles
            /\ host = Host(os[1], os[2], fl, m)
            /\ \E usePy \in {Unset, Value(<< "1" >>)},
                  exe \in ExeOverrides(os[1]), pv \in PresetVars,
                  dyld \in InheritedDyld :
                 environ = Environ(usePy, exe, pv, dyld)
    /\ inherited = environ
    /\ located = NotFound
    /\ det = NoDet
    /\ probe = NoProbe
    /\ pin = << RootNode >> /\ pout = << >> /\ pfn = "none"
    /\ fs = [p \in AllPaths |-> IF p = "a.xml" THEN Xml("orig", TreeNone) ELSE Absent]
    /\ dry = FALSE /\ use_python = FALSE /\ vre_exe = ""
    /\ pc = "new" /\ call = "none"
    /\ main_xml = "" /\ extra_xmls = << >>
    /\ device = "" /\ idx = 0 /\ backups = << >> /\ ridx = 0
    /\ pending = NoExc /\ result = "none"
    /\ launches = << >> /\ pre = fs /\ log = << >>
    /\ restoreFault = FALSE /\ wrappers = NoWrappers /\ ScriptIdle

\* a script builds the runner: VreExample(dry)
Construct ==
    /\ pc = "new"
    /\ \E d \in BOOLEAN :
         LET o == construct(host, environ, d)
         IN  /\ dry' = o.dry /\ use_python' = o.use_python /\ vre_exe' = o.vre_exe
             /\ environ' = o.environ
             /\ located' = o.located
             /\ pc' = IF o.exit THEN "quit" ELSE "idle"
    /\ UNCHANGED << fs, call, main_xml, extra_xmls, probe, device, idx, backups,
                    ridx, pending, result, launches, pre, log, restoreFault,
                    pin, pout, pfn, det, host, inherited, wrappers,
                    pricing_engine_xml, env_vars, env_prev, cwd, example,
                 current_dir, exit_code >>

NextLocate ==
    \/ Construct
    \/ CallRun

SpecLocate == InitLocate /\ [][NextLocate]_vars

\* ------------------------------------------------ patched copies (utils)
\* a file name in a directory, split the way pathlib splits it
XmlPath(dir, stem) == [dir |-> dir, stem |-> stem, suffix |-> ".xml"]

\* src.with_name(f"{src.stem}_gpu_patched{src.suffix}")
with_name_patched(src) == [src EXCEPT !.stem = @ \o "_gpu_patched"]

\* Path.name
name_of(path) == path.stem \o path.suffix

exists(f, path) == path \in DOMAIN f /\ f[path].kind # "absent"

\* utils.resolve(relpath): the path itself when it exists, else the file of
\* that name under the repository root, else the path unchanged
resolve(f, path) ==
    IF exists(f, path) THEN path
    ELSE IF exists(f, [path EXCEPT !.dir = "repo"]) THEN [path EXCEPT !.dir = "repo"]
    ELSE path

Step(f, exc) == [fs |-> f, exc |-> exc]

\* _patched_copy(src): shutil.copy2 to the sibling name, then patch the copy
patched_copy(f, src, device_str, order, border) ==
    LET dst == with_name_patched(src)
        copied == [f EXCEPT ![dst] = f[src]]
    IN  IF Parses(copied[dst])
        THEN Step([copied EXCEPT ![dst] =
                       utils_patch_external_device_param(@, device_str, order, border)],
                  "none")
        ELSE Step(copied, "ParseError")

\* utils._rewrite_parameter(xml_path, name, value)
rewrite_parameter(f, xml_path, name, value) ==
    IF Parses(f[xml_path])
    THEN Step([f EXCEPT ![xml_path] =
                   TreeWrite(ensure_parameter(@.nodes, name, value))], "none")
    ELSE Step(f, "ParseError")

\* `for extra in extra_xmls`, stopped by the first exception
RECURSIVE CopyExtras(_, _, _, _, _)
CopyExtras(st, extras, device_str, order, border) ==
    IF extras = << >> \/ st.exc # "none" THEN st
    ELSE LET extra_path == resolve(st.fs, Head(extras))
         IN  CopyExtras(IF exists(st.fs, extra_path)
                        THEN patched_copy(st.fs, extra_path, device_str, order, border)
                        ELSE st,
                        Tail(extras), device_str, order, border)

\* utils.prepare_gpu_xml(main_xml, pricing_engine_xml, extra_xmls) on file
\* system f and host env: the file system afterwards and the exception raised
prepare_gpu_xml(f, env, main, pricing, extras, order, border) ==
    LET d == utils_detect_external_compute_device(env)
        main_path == resolve(f, main)
        main_patched == with_name_patched(main_path)
    IN  IF ~d.ok THEN Step(f, d.error)
        ELSE IF ~exists(f, main_path) THEN Step(f, "FileNotFoundError")
        ELSE LET s1 == patched_copy(f, main_path, d.tag, order, border)
                 pe_src == resolve(s1.fs, pricing)
                 s2 == IF pricing # NoArg /\ exists(s1.fs, pe_src)
                       THEN LET c == patched_copy(s1.fs, pe_src, d.tag, order, border)
                            IN  IF c.exc # "none" THEN c
                                ELSE rewrite_parameter(
                                         c.fs, main_patched, "pricingEnginesFile",
                                         name_of(with_name_patched(pe_src)))
                       ELSE s1
             IN  IF s1.exc # "none" THEN s1
                 ELSE CopyExtras(s2, extras, d.tag, order, border)

SourceStems == {"m", "p", "m_gpu_patched"}
PrepareStems == SourceStems \cup {s \o "_gpu_patched" : s \in SourceStems}
PreparePaths == {XmlPath(d, s) : d \in {".", "repo"}, s \in PrepareStems}
PrepareArgs == {XmlPath(".", s) : s \in SourceStems}

InitPrepare ==
    /\ \E cm \in {Absent, Xml("orig", TreeNone), Garbage},
          cp \in {Absent, Xml("orig", TreeDevice)},
          cs \in {Absent, Xml("orig", TreeStale)},
          cr \in {Absent, Xml("orig", TreeDevice)} :
         fs = [q \in PreparePaths |->
                 IF q = XmlPath(".", "m") THEN cm
                 ELSE IF q = XmlPath(".", "p") THEN cp
                 ELSE IF q = XmlPath(".", "m_gpu_patched") THEN cs
                 ELSE IF q = XmlPath("repo", "m") THEN cr
                 ELSE Absent]
    /\ main_xml \in PrepareArgs
    /\ pricing_engine_xml \in PrepareArgs \cup {NoArg}
    /\ \E n \in 0..MaxExtra : extra_xmls \in [1..n -> PrepareArgs]
    /\ probe \in {ProbeEnv("", "Linux", NvidiaOutput(<<"A100">>), << >>, "", << >>),
                  ProbeEnv("", "Windows", NoNvidia, << >>, "", << >>)}
    /\ pre = fs
    /\ pc = "idle" /\ call = "none"
    /\ dry = FALSE /\ use_python = FALSE /\ vre_exe = LocatedExe
    /\ device = "" /\ idx = 0 /\ backups = << >> /\ ridx = 0
    /\ pending = NoExc /\ result = "none"
    /\ launches = << >> /\ log = << >>
    /\ restoreFault = FALSE /\ wrappers = NoWrappers
    /\ det = NoDet /\ LocatorIdle
    /\ pin = << RootNode >> /\ pout = << >> /\ pfn = "none"
    /\ env_vars = << >> /\ env_prev = << >> /\ cwd = Cwd /\ example = "" /\ current_dir = << >>
    /\ exit_code = Unbound

\* a notebook calls prepare_gpu_xml(main_xml, pricing_engine_xml, extra_xmls)
PrepareGpuXml ==
    /\ pc = "idle"
    /\ \E order \in SetOrders(DeviceNames), border \in SetOrders(BoolNames) :
         LET out == prepare_gpu_xml(fs, probe, main_xml, pricing_engine_xml,
                                    extra_xmls, order, border)
         IN  /\ fs' = out.fs
             /\ pending' = IF out.exc = "none" THEN NoExc ELSE Exc(out.exc)
             /\ result' = IF out.exc = "none" THEN "returned" ELSE "raised"
    /\ call' = "prepare_gpu_xml"
    /\ pc' = "done"
    /\ OrchUnchanged
    /\ UNCHANGED << main_xml, extra_xmls, probe, device, idx, backups, ridx,
                    launches, pre, log, restoreFault, wrappers >>

SpecPrepare == InitPrepare /\ [][PrepareGpuXml]_vars

\* ------------------------------------------------ env() context manager
MaxVars == 2

EnvNames == {"VRE_CG_SENSI_TRACE_SCEN", "VRE_CG_SENSI_TRACE_TOP", "PATH"}

\* values a caller puts into vars: None, a string, a number, or a string the
\* environment rejects (os.environ[k] = ... raises ValueError)
Requested ==
    { [kind |-> "None", v |-> ""], [kind |-> "str", v |-> "*"],
      [kind |-> "int", v |-> 2000], [kind |-> "bad", v |-> "a\\0b"] }

\* str(v)
Str(req) == IF req.kind = "int" THEN ToString(req.v) ELSE req.v

\* prev = {k: os.environ.get(k) for k in vars}
Prev(e, items) == [i \in 1..Len(items) |-> << items[i][1], e[items[i][1]] >>]

\* the loop over vars.items() before the yield, stopped by the first exception
RECURSIVE SetVars(_, _)
SetVars(st, items) ==
    IF items = << >> \/ st.exc # "none" THEN st
    ELSE LET k == Head(items)[1]
             v == Head(items)[2]
         IN  SetVars(IF v.kind = "None" THEN [st EXCEPT !.env[k] = Unset]
                     ELSE IF v.kind = "bad" THEN [st EXCEPT !.exc = "ValueError"]
                     ELSE [st EXCEPT !.env[k] = Value(<< Str(v) >>)],
                     Tail(items))

\* variant of restored: a variable that was unset on entry is left as it is
restored_KeepNew(v, cur) == IF v = Unset THEN cur ELSE v

\* one iteration of the finally loop: pop(k) when v is None, else set to v
restored(v, cur) == v

\* the finally block
RECURSIVE Restore(_, _)
Restore(e, prev) ==
    IF prev = << >> THEN e
    ELSE Restore([e EXCEPT ![Head(prev)[1]] = restored(Head(prev)[2], @)],
                 Tail(prev))

InitEnv ==
    /\ environ \in [EnvNames -> {Unset, Value(<< "old" >>)}]
    /\ inherited = environ
    /\ \E n \in 0..MaxVars :
         \E ks \in [1..n -> EnvNames], vs \in [1..n -> Requested] :
            /\ \A i, j \in 1..n : i # j => ks[i] # ks[j]
            /\ env_vars = [i \in 1..n |-> << ks[i], vs[i] >>]
    /\ env_prev = << >>
    /\ pc = "idle" /\ call = "none"
    /\ pending = NoExc /\ result = "none"
    /\ fs = [q \in AllPaths |-> Absent] /\ pre = fs
    /\ main_xml = "" /\ extra_xmls = << >> /\ pricing_engine_xml = NoArg
    /\ dry = FALSE /\ use_python = FALSE /\ vre_exe = LocatedExe
    /\ device = "" /\ idx = 0 /\ backups = << >> /\ ridx = 0
    /\ launches = << >> /\ log = << >>
    /\ restoreFault = FALSE /\ wrappers = NoWrappers
    /\ probe = NoProbe /\ det = NoDet
    /\ host = NoHost /\ located = NotFound
    /\ pin = << RootNode >> /\ pout = << >> /\ pfn = "none"
    /\ cwd = Cwd /\ example = "" /\ current_dir = << >>
    /\ exit_code = Unbound

EnvUnchanged ==
    UNCHANGED << fs, dry, use_python, vre_exe, main_xml, extra_xmls, probe,
                 device, idx, backups, ridx, result, launches, pre, log,
                 restoreFault, pin, pout, pfn, det, host, inherited, located,
                 wrappers, pricing_engine_xml, env_vars, cwd, example,
                 current_dir, exit_code >>

\* `with env(vars):` up to the yield; an exception while the variables are
\* set runs the finally block and leaves the with statement
EnvEnter ==
    /\ pc = "idle"
    /\ LET prev == Prev(environ, env_vars)
           st == SetVars([env |-> environ, exc |-> "none"], env_vars)
       IN  /\ env_prev' = prev
           /\ IF st.exc = "none"
              THEN /\ environ' = st.env /\ pc' = "body" /\ pending' = NoExc
              ELSE /\ environ' = Restore(st.env, prev)
                   /\ pc' = "done" /\ pending' = Exc(st.exc)
    /\ call' = "env"
    /\ EnvUnchanged

\* the body of the with statement: it may set or unset any variable and ends
\* normally or with an exception (a failing run or run_gpu_dynamic)
EnvBody ==
    /\ pc = "body"
    /\ \/ UNCHANGED environ
       \/ \E k \in EnvNames, v \in {Unset, Value(<< "body" >>)} :
             environ' = [environ EXCEPT ![k] = v]
    /\ pending' \in {NoExc, Exc("Exception")}
    /\ pc' = "exit"
    /\ UNCHANGED << call, env_prev >>
    /\ EnvUnchanged

\* the finally block after the body
EnvExit ==
    /\ pc = "exit"
    /\ environ' = Restore(environ, env_prev)
    /\ pc' = "done"
    /\ UNCHANGED << call, env_prev, pending >>
    /\ EnvUnchanged

NextEnv ==
    \/ EnvEnter
    \/ EnvBody
    \/ EnvExit

SpecEnv == InitEnv /\ [][NextEnv]_vars

Next ==
    \/ CallRun
    \/ CallGpu
    \/ Detect
    \/ BackupStep
    \/ PatchStep
    \/ Invoke
    \/ RestoreStep
    \/ Finish

Spec == Init /\ [][Next]_vars

\* ------------------------------------------------ properties
Gpu == call = "run_gpu_dynamic"

InXmls(p) == \E i \in 1..Len(xmls) : xmls[i] = p

\* existing files named by main_xml or extra_xmls at the time of the call
ExistingInputs == {p \in Files : InXmls(p) /\ pre[p].kind # "absent"}

Count(ev, p) ==
    Cardinality({i \in 1..Len(log) : log[i].ev = ev /\ log[i].path = p})

RestoreVisits ==
    SelectSeq(log, LAMBDA e : e.ev \in {"restore", "restore_failed"})

\* the device was detected and run_gpu_dynamic has returned or raised
GpuFinished == Gpu /\ pc = "done" /\ result \in {"True", "raised"}

\* C1: when run_gpu_dynamic returns or raises after a device was detected,
\* every existing file named by main_xml or extra_xmls has the content it had
\* before the call (no restore step having failed).
C1_FilesRestored ==
    (GpuFinished /\ ~restoreFault) =>
        \A p \in ExistingInputs : fs[p] = pre[p]

C3_SkipWithoutDevice ==
    (Gpu /\ pc \notin {"idle", "detect"} /\ ~detect_external_device(probe).ok) =>
        /\ pc = "done" /\ result = "False" /\ pending = NoExc
        /\ fs = pre /\ backups = << >> /\ launches = << >> /\ log = << >>

C3_Witness ==
    /\ Gpu /\ pc = "done" /\ result = "False"
    /\ probe.override = "" /\ probe.system = "Windows"
    /\ ExistingInputs # {}

\* the failure of the run itself, read off the loop position and the child
OriginalFailure ==
    IF idx <= Len(xmls) THEN Exc("ParseError")
    ELSE IF dry THEN NoExc
    ELSE IF launches = << >> THEN Exc("UnboundLocalError")
    ELSE IF ~launches[1].started THEN Exc("OSError")
    ELSE IF launches[1].code # 0 THEN Exc("Exception")
    ELSE NoExc

\* C4: the error that reaches the caller of run_gpu_dynamic is the failure of
\* the run itself; a failing restore step neither replaces it nor makes a
\* successful run raise.
C4_OriginalErrorSurfaces ==
    (Gpu /\ pc \in {"finally", "done"} /\ result # "False") =>
        /\ pending = OriginalFailure
        /\ pc = "done" =>
              result = (IF OriginalFailure = NoExc THEN "True" ELSE "raised")

C4_Witness ==
    /\ Gpu /\ pc = "done" /\ restoreFault
    /\ result = "raised" /\ pending = Exc("Exception")

\* arguments of a launch after the program (and, in wrapper mode, the script)
ArgsOf(l) ==
    IF l.argv[1] = Python /\ use_python
    THEN SubSeq(l.argv, 3, Len(l.argv)) ELSE Tail(l.argv)

\* C5: with a detected device, all patch writes precede the engine launch, the
\* engine is launched at most once and with main_xml as its only argument, and
\* every restore follows the engine and is complete when the failure propagates.
C5_Ordering ==
    Gpu =>
        LET Idx(evs) == {i \in 1..Len(log) : log[i].ev \in evs}
            patching  == Idx({"backup", "write"})
            launching == Idx({"launch"})
            engine    == Idx({"launch", "exit"})
            restoring == Idx({"restore", "restore_failed"})
        IN  /\ Len(launches) <= 1
            /\ \A k \in 1..Len(launches) : ArgsOf(launches[k]) = << main_xml >>
            /\ \A i \in patching, j \in launching : i < j
            /\ \A i \in restoring, j \in engine : j < i
            /\ (pc = "done" /\ result = "raised") => ridx = Len(backups) + 1
            /\ restoring # {} => pc \in {"finally", "done"}

C5_Witness ==
    /\ Gpu /\ pc = "done" /\ result = "raised" /\ pending = Exc("Exception")
    /\ Len(backups) = 2 /\ Len(RestoreVisits) = 2
    /\ \E i \in 1..Len(log) : log[i].ev = "write"

\* C6: if parsing fails while patching a file, every file backed up in the run
\* (the failing one included) is back at its pre-run content when the error
\* propagates, and the engine was never launched.
C6_ParseFailureRestores ==
    (GpuFinished /\ pending.type = "ParseError" /\ ~restoreFault) =>
        /\ launches = << >>
        /\ \A i \in 1..Len(backups) : fs[backups[i][1]] = pre[backups[i][1]]

\* C7: in a run that reaches the engine, the number of transactions equals the
\* number of distinct existing input files, each such file is written at most
\* once and restored exactly once, and no transaction is left open.
C7_OneTransactionPerFile ==
    (GpuFinished /\ pending.type # "ParseError" /\ ~restoreFault) =>
        /\ Len(backups) = Cardinality(ExistingInputs)
        /\ \A p \in ExistingInputs :
              Count("write", p) <= 1 /\ Count("restore", p) = 1
        /\ \A i \in 1..Len(backups) : ~isfile(backups[i][2])

\* each visit of the restore loop handles the transaction its number names
VisitsNameTransactions(rv) ==
    \A i \in 1..Len(rv) :
        /\ rv[i].n \in 1..Len(backups)
        /\ rv[i].path = backups[rv[i].n][1]

\* C8 (as stated): the finalize step restores in the reverse of the order in
\* which the backups were created.
C8_ReverseOrder ==
    Gpu =>
        LET rv == RestoreVisits
        IN  /\ VisitsNameTransactions(rv)
            /\ \A i, j \in 1..Len(rv) : i < j => rv[i].n > rv[j].n

\* C8 (amended): the finalize step restores in the order in which the backups
\* were created.
C8_CreationOrder ==
    Gpu =>
        LET rv == RestoreVisits
        IN  /\ VisitsNameTransactions(rv)
            /\ \A i, j \in 1..Len(rv) : i < j => rv[i].n < rv[j].n

C8_Witness ==
    LET rv == RestoreVisits
    IN  /\ Gpu /\ pc = "done" /\ Len(rv) = 2
        /\ rv[1].path = "b.xml" /\ rv[2].path = "a.xml"
        /\ rv[1].ev = "restore" /\ rv[2].ev = "restore"

\* C9: from its backup until its restore the sidecar of a patched file holds
\* the file's pre-run content, and after the run no sidecar remains.
C9_SidecarPristine ==
    Gpu =>
        /\ \A i \in 1..Len(backups) :
              (pc \in {"patch", "loop"} \/ (pc = "finally" /\ ridx <= i /\ ~restoreFault))
                 => fs[backups[i][2]] = pre[backups[i][1]]
        /\ (pc = "done" /\ ~restoreFault) =>
              \A i \in 1..Len(backups) : ~isfile(backups[i][2])

Matches(nodes, name) == {i \in IterParameter(nodes) : nodes[i].name = name}

\* C10: patching sets the text of every Parameter entry whose name is in the
\* device name-set to the device tag, and for each name of the set that matched
\* no entry a new entry with that name and the device tag is created.
C10_SetOrCreateEachName ==
    pfn # "none" =>
        /\ \A i \in IterParameter(pout) :
              pout[i].name \in DeviceNames => pout[i].text = device
        /\ \A n \in DeviceNames :
              Matches(pin, n) = {} => Cardinality(Matches(pout, n)) = 1

\* C11: whenever a device tag is patched into a configuration file, the
\* enable-flag entries UseExternalComputeDevice and
\* xvaCgUseExternalComputeDevice exist in the file and are set to "true".
C11_EnableFlagsForced ==
    pfn # "none" =>
        \A n \in BoolNames :
            /\ Matches(pout, n) # {}
            /\ \A i \in Matches(pout, n) : pout[i].text = "true"

\* parent of element i (i > 1) in a pre-order listing
ParentOf(nodes, i) ==
    CHOOSE j \in 1..(i - 1) :
        /\ nodes[j].depth = nodes[i].depth - 1
        /\ \A k \in (j + 1)..(i - 1) : nodes[k].depth >= nodes[i].depth

\* where the claim puts a created entry: the first Parameters container if the
\* document has one, the root otherwise
ContainerOrRoot(nodes) ==
    IF FindParameters(nodes) # 0 THEN FindParameters(nodes) ELSE 1

\* C20: an entry the patcher creates is a child of the document's Parameters
\* container whenever the document has one (even an empty one), and a child of
\* the root only when it has none.
C20_CreatedUnderContainer ==
    pfn # "none" =>
        \A n \in DeviceNames \cup BoolNames :
            Matches(pin, n) = {} =>
                \A i \in Matches(pout, n) :
                    ParentOf(pout, i) = ContainerOrRoot(pin)

\* C17: a non-empty EXTERNAL_COMPUTE_DEVICE is returned verbatim as the
\* device tag and no probing subprocess is launched.
C17_OverrideVerbatim ==
    (det.fn # "none" /\ probe.override # "") =>
        /\ det.out.ok
        /\ det.out.tag = probe.override
        /\ det.out.probes = << >>

\* an override is set on a host whose probes would have found another device
C17_Witness ==
    /\ det.fn # "none"
    /\ probe.override = "gpu0"
    /\ probe.system = "Linux"
    /\ probe.nvidia = NvidiaOutput(<<"A100">>)
    /\ det.out.tag = "gpu0"

\* The strings of the hosts above that match [A-Za-z]+, [A-Za-z0-9 ]+ and .+
\* ("Intel(R) Corporation" has characters outside the vendor class).
ApiParts == {"CUDA", "Metal", "OpenCL", "Basic"}
VendorParts == {"NVIDIA", "Apple", "Intel", "Default", "Apple M2"}
ModelParts ==
    {"A100", "H100", "Iris", "Default", "Apple M2", "Apple M4 Max",
     "Apple M3 Ultra", "Apple Apple M4 Max", "Apple Apple M3 Ultra",
     "Apple Apple M1"}

\* ^[A-Za-z]+/[A-Za-z0-9 ]+/.+$ over the strings of the hosts above
HasTagForm(tag) ==
    \E a \in ApiParts, v \in VendorParts, m \in ModelParts :
        tag = a \o "/" \o v \o "/" \o m

\* C18: every device tag returned by detection has the three-part form
\* <API>/<Vendor>/<Model>, whichever branch produced it.
C18_TagForm ==
    (det.fn # "none" /\ det.out.ok) => HasTagForm(det.out.tag)

\* some probe of the host's platform names an accelerator
Identified(env) ==
    \/ /\ env.system = "Linux"
       /\ env.nvidia.ok
       /\ \E i \in 1..Len(env.nvidia.lines) : env.nvidia.lines[i] # ""
    \/ /\ env.system = "Darwin"
       /\ \/ /\ env.harness = "ran"
             /\ \E i \in 1..Len(env.ce) : env.ce[i].api \in {"Metal/", "OpenCL/"}
          \/ env.opencl # ""
          \/ /\ env.brandErr = "none"
             /\ \/ {"M4", "Max"} \subseteq Words(env.brand)
                \/ {"M3", "Ultra"} \subseteq Words(env.brand)

\* C19: detection by the runner fails exactly when no override is set and no
\* accelerator is identified; the failure is always the RuntimeError that
\* run_gpu_dynamic turns into a skip, whatever error a probe raised; on a
\* platform other than Linux or Darwin it fails without launching a probe.
C19_SingleDetectionError ==
    det.fn = "helper" =>
        /\ ~det.out.ok <=> (probe.override = "" /\ ~Identified(probe))
        /\ ~det.out.ok => det.out.error = "RuntimeError"
        /\ (probe.override = "" /\ probe.system \notin {"Linux", "Darwin"}) =>
               (~det.out.ok /\ det.out.probes = << >>)

\* the nvidia-smi query timed out and detection still failed with RuntimeError
C19_Witness ==
    /\ det.fn = "helper"
    /\ probe.override = "" /\ probe.system = "Linux"
    /\ probe.nvidia = NvidiaFailed("TimeoutExpired")
    /\ ~det.out.ok /\ det.out.error = "RuntimeError"

\* the constructor has run and went through _locate_vre_exe
Located == pc # "new" /\ ~inherited.VRE_EXAMPLES_USE_PYTHON.set
OverrideAvailable == TryOverride(host, inherited).found
PresetAvailable == TryPreset(host, inherited).found
ScanAvailable == TryScan(host).found
StoredAs(path) == vre_exe = PathStr(host.osname, path)

\* C12: resolution follows the precedence override > preset > build scan >
\* legacy ladder: with an existing override file the override is chosen even
\* if a preset is valid, and with a valid preset (and no usable override) the
\* preset's binary is chosen even if the build directory can be scanned.
C12_Precedence ==
    Located =>
        /\ OverrideAvailable =>
              (located.via = "override" /\ StoredAs(inherited.VRE_EXECUTABLE))
        /\ (~OverrideAvailable /\ PresetAvailable) =>
              (located.via = "preset" /\ StoredAs(TryPreset(host, inherited).path))
        /\ (~OverrideAvailable /\ ~PresetAvailable /\ ScanAvailable) =>
              (located.via = "scan" /\ StoredAs(TryScan(host).path))

\* an existing override file wins over a valid preset
C12_Witness ==
    /\ Located /\ OverrideAvailable /\ PresetAvailable
    /\ located.via = "override"
    /\ TryPreset(host, inherited).path # inherited.VRE_EXECUTABLE

\* C13: if the executable override is set and names a path that does not
\* exist, locating fails before any environment preparation or device work.
C13_BadOverrideFails ==
    (Located /\ inherited.VRE_EXECUTABLE # NoPath
             /\ ~exe_isfile(host, inherited.VRE_EXECUTABLE)) =>
        /\ pc = "quit"
        /\ environ = inherited
        /\ launches = << >>

NoStepYields ==
    \A i \in 1..Len(ResolutionOrder) : ~Try(ResolutionOrder[i], host, inherited).found

\* C14: locating terminates the interpreter exactly when no resolution step
\* yields an existing regular file, and at that point no configuration file
\* has been modified, no backup exists, the library search variable is as
\* inherited and nothing has been launched.
C14_FatalBeforeAnyChange ==
    Located =>
        /\ NoStepYields <=> pc = "quit"
        /\ pc = "quit" =>
              /\ environ = inherited
              /\ fs = pre /\ backups = << >> /\ \A f \in Files : ~isfile(Bak(f))
              /\ launches = << >>
              /\ vre_exe = ""

\* the override names a missing file, other files exist, nothing is found
C14_Witness ==
    /\ pc = "quit"
    /\ inherited.VRE_EXECUTABLE # NoPath
    /\ host.files # {}
    /\ inherited.DYLD_LIBRARY_PATH.set

ExeDirStr == PathStr(host.osname, dirname(abspath(host.cwd, located.path)))
ExeParentStr ==
    PathStr(host.osname, dirname(dirname(abspath(host.cwd, located.path))))

\* C15: however the executable was resolved, by the first engine launch the
\* library search variable begins with the executable's directory followed by
\* that directory's parent.
C15_PreparedBeforeLaunch ==
    (Located /\ launches # << >>) =>
        LET l == environ.DYLD_LIBRARY_PATH
        IN  /\ l.set /\ Len(l.fields) >= 2
            /\ l.fields[1] = ExeDirStr
            /\ l.fields[2] = ExeParentStr

NonEmptyFields(v) == SelectSeq(v.fields, LAMBDA f : f # "")
FirstAt(seq, x) ==
    CHOOSE i \in 1..Len(seq) : seq[i] = x /\ \A j \in 1..(i - 1) : seq[j] # x

\* C16: when the search list is prepared it consists of the executable's
\* directory, its parent and the non-empty inherited entries, each exactly
\* once and in order of first occurrence; it is stored in the same variable
\* and every other environment variable keeps its value.
C16_SearchList ==
    /\ \A k \in DOMAIN environ \ {"DYLD_LIBRARY_PATH"} : environ[k] = inherited[k]
    /\ (Located /\ located.via = "legacy") =>
          LET l == environ.DYLD_LIBRARY_PATH.fields
              src == << ExeDirStr, ExeParentStr >>
                     \o NonEmptyFields(inherited.DYLD_LIBRARY_PATH)
          IN  /\ environ.DYLD_LIBRARY_PATH.set
              /\ {l[i] : i \in 1..Len(l)} = {src[i] : i \in 1..Len(src)}
              /\ \A i, j \in 1..Len(l) :
                    i < j => FirstAt(src, l[i]) < FirstAt(src, l[j])

\* the inherited list repeats an entry and names the executable's directory
C16_Witness ==
    /\ Located /\ located.via = "legacy"
    /\ inherited.DYLD_LIBRARY_PATH = Value(<< "/x", "", "/repo/build/App", "/x" >>)
    /\ environ.DYLD_LIBRARY_PATH = Value(<< "/repo/build/App", "/repo/build", "/x" >>)

LinuxProbe == det.fn = "helper" /\ probe.override = "" /\ probe.system = "Linux"

\* C21 as stated: the name in the tag is the first line of the query's output.
C21_FirstLine ==
    (LinuxProbe /\ probe.nvidia.ok /\ probe.nvidia.lines # << >>) =>
        /\ det.out.ok
        /\ det.out.tag = "CUDA/NVIDIA/" \o probe.nvidia.lines[1]

\* C21: on Linux without an override the vendor query is run exactly once;
\* detection returns CUDA/NVIDIA/<name> where <name> is the first non-empty
\* line of its output, and fails when the command is missing, fails, times
\* out or prints no non-empty line.
C21_FirstNonEmptyLine ==
    LinuxProbe =>
        LET lines == probe.nvidia.lines
            named == {i \in 1..Len(lines) : lines[i] # ""}
        IN  /\ det.out.probes = << "nvidia-smi" >>
            /\ det.out.ok <=> (probe.nvidia.ok /\ named # {})
            /\ det.out.ok =>
                  \E i \in named :
                     /\ \A j \in named : i <= j
                     /\ det.out.tag = "CUDA/NVIDIA/" \o lines[i]

\* the output starts with a blank line and the name comes from the second
C21_Witness ==
    /\ LinuxProbe
    /\ probe.nvidia = NvidiaOutput(<< "", "A100" >>)
    /\ det.out.tag = "CUDA/NVIDIA/A100"

DarwinProbe == det.fn = "helper" /\ probe.override = "" /\ probe.system = "Darwin"
Reported(prefix) ==
    IF probe.harness = "ran"
    THEN {i \in 1..Len(probe.ce) : probe.ce[i].api = prefix}
    ELSE {}

HasBinary(sub) ==
    << "repo", "build", sub, "App", exe_name(host.osname) >> \in host.files

\* C23: an executable found by the build-root scan is App/<binaryName> of an
\* immediate subdirectory of the build root, namely the first one in lexical
\* order of name that holds that file; entries that are not directories are
\* passed over.
C23_ScanLexicalFirst ==
    (Located /\ located.via = "scan") =>
        \E i \in 1..Len(SortedNames) :
            /\ HasBinary(SortedNames[i])
            /\ \A j \in 1..(i - 1) : ~HasBinary(SortedNames[j])
            /\ located.path =
                  Rel(<< "..", "..", "build", SortedNames[i], "App",
                         exe_name(host.osname) >>)
            /\ StoredAs(located.path)

\* two subdirectories hold the binary and the lexically first one is taken
C23_Witness ==
    /\ Located /\ located.via = "scan"
    /\ HasBinary("debug") /\ HasBinary("release")
    /\ located.path.parts[4] = "debug"

\* the entries of xmls that named an existing file when the call was made
ExistingList == SelectSeq(xmls, LAMBDA p : p # "" /\ pre[p].kind # "absent")
PathsOf(ev) ==
    LET es == SelectSeq(log, LAMBDA e : e.ev = ev)
    IN  [i \in 1..Len(es) |-> es[i].path]
IsPrefix(a, b) == Len(a) <= Len(b) /\ a = SubSeq(b, 1, Len(a))
PatchPhaseDone ==
    /\ Gpu /\ (pc = "finally" \/ GpuFinished)
    /\ PathsOf("write") = ExistingList

\* C24: entries of main_xml/extra_xmls that are empty or name no existing
\* file are passed over: no backup is taken and no file appears for them; the
\* other entries are backed up and patched in list order; and once they are
\* all patched a non-dry runner that has a program to start launches it with
\* main_xml.
C24_MissingSkipped ==
    Gpu =>
        /\ \A p \in Files :
              (InXmls(p) /\ pre[p].kind = "absent") =>
                 /\ fs[p] = pre[p] /\ fs[Bak(p)] = pre[Bak(p)]
                 /\ Count("backup", p) = 0 /\ Count("write", p) = 0
        /\ IsPrefix(PathsOf("backup"), ExistingList)
        /\ IsPrefix(PathsOf("write"), PathsOf("backup"))
        /\ (PatchPhaseDone /\ ~dry /\ pending.type # "UnboundLocalError") =>
              /\ Len(launches) = 1
              /\ ArgsOf(launches[1]) = << main_xml >>

\* a missing main file and an empty entry precede a file that is patched, and
\* the engine is started with the missing main file's name
C24_Witness ==
    /\ Gpu /\ pc = "done" /\ result = "True"
    /\ main_xml = "b.xml" /\ pre["b.xml"].kind = "absent"
    /\ extra_xmls = << "", "a.xml" >>
    /\ Count("write", "a.xml") = 1
    /\ Len(launches) = 1

\* C25: whenever run() starts the native engine (not dry, not wrapper mode)
\* the program it starts is the non-empty path the constructor resolved.
C25_EngineResolved ==
    (~dry /\ ~use_python) =>
        \A k \in 1..Len(launches) : launches[k].argv[1] = LocatedExe

RunReturned == call = "run" /\ pc = "done" /\ ~dry

\* C26: a non-dry run(xml) returns normally only if exactly one child process
\* was started and exited with code 0; in wrapper mode the child is
\* ../vre_wrapper.py whenever that script exists, ../../vre_wrapper.py when
\* only that one exists, and with neither script nothing is started and the
\* call raises.
C26_RunReturnsOnSuccess ==
    RunReturned =>
        /\ result = "None" =>
              /\ Len(launches) = 1
              /\ launches[1].started /\ launches[1].code = 0
        /\ use_python =>
              /\ wrappers.near =>
                    (Len(launches) = 1 /\ launches[1].argv[2] = "../vre_wrapper.py")
              /\ (~wrappers.near /\ wrappers.far) =>
                    (Len(launches) = 1 /\ launches[1].argv[2] = "../../vre_wrapper.py")
              /\ (~wrappers.near /\ ~wrappers.far) =>
                    (launches = << >> /\ result = "raised")

\* both wrapper scripts exist and the nearer one ran to exit code 0
C26_Witness ==
    /\ RunReturned /\ use_python /\ result = "None"
    /\ wrappers.near /\ wrappers.far
    /\ launches[1].argv = << Python, "../vre_wrapper.py", main_xml >>

\* C27: a dry runner never starts a child process; its run_gpu_dynamic still
\* detects the device, returns False without one, and with one backs up and
\* patches the existing files in list order, restores every file it backed
\* up, and returns True once all of them were patched.
C27_DrySkipsOnlyLaunch ==
    dry =>
        /\ launches = << >>
        /\ (Gpu /\ pc = "done") =>
              /\ result = "False" <=> ~detect_external_device(probe).ok
              /\ result = "True" <=> (GpuFinished /\ PathsOf("write") = ExistingList)
              /\ GpuFinished =>
                    /\ IsPrefix(PathsOf("write"), ExistingList)
                    /\ PathsOf("backup") = [i \in 1..Len(backups) |-> backups[i][1]]
                    /\ \A i \in 1..Len(backups) :
                          Count("restore", backups[i][1])
                            + Count("restore_failed", backups[i][1]) >= 1

\* a dry run_gpu_dynamic patched and restored two files and returned True
C27_Witness ==
    /\ dry /\ Gpu /\ pc = "done" /\ result = "True"
    /\ Count("write", "a.xml") = 1 /\ Count("restore", "a.xml") = 1
    /\ Count("write", "b.xml") = 1 /\ Count("restore", "b.xml") = 1
    /\ fs = pre

Prepared == call = "prepare_gpu_xml" /\ pc = "done"
GivenXmls ==
    {main_xml} \cup {extra_xmls[i] : i \in 1..Len(extra_xmls)}
               \cup (IF pricing_engine_xml = NoArg THEN {} ELSE {pricing_engine_xml})
\* the files the arguments named when the call was made
GivenSources == {resolve(pre, g) : g \in {x \in GivenXmls : exists(pre, resolve(pre, x))}}

\* C28: prepare_gpu_xml leaves every source file it was given with the
\* content it had, writes only to files named <stem>_gpu_patched, and when
\* detection fails or the main file is missing it raises with the file system
\* unchanged.
C28_SourcesUntouched ==
    Prepared =>
        /\ \A src \in GivenSources : fs[src] = pre[src]
        /\ \A q \in DOMAIN fs :
              fs[q] # pre[q] => \E src \in DOMAIN fs : q = with_name_patched(src)
        /\ (~utils_detect_external_compute_device(probe).ok
              \/ ~exists(pre, resolve(pre, main_xml))) =>
              (fs = pre /\ result = "raised")

\* ------------------------------------------------------ run_example
ExampleFiles ==
    { << "repo", "Notebooks", "Example_1", "run.py" >>,
      << "repo", "Notebooks", "Example_1", "Input", "vre.xml" >>,
      << "repo", "Notebooks", "Example_2", "run.py" >>,
      << "repo", "Notebooks", "Example_3", "Input", "vre.xml" >>,
      << "repo", "Notebooks", "run_examples.py" >>,
      << "repo", "README.md" >> }

StartDirs ==
    { << "repo", "Notebooks" >>, << "repo", "Notebooks", "Example_1" >>,
      << "repo" >> }

Examples == {"Example_1", "Example_2", "Example_3", "Example_99", ".."}

\* os.chdir succeeds on an existing directory
chdir_ok(h, dir) == exe_isdir(h, Abs(dir))

InitExample ==
    /\ \E files \in SUBSET ExampleFiles :
          host = Host("posix", "64", files, NoManifest)
    /\ cwd \in StartDirs
    /\ chdir_ok(host, cwd)
    /\ example = "" /\ current_dir = << >> /\ exit_code = Unbound
    /\ pc = "idle" /\ call = "none"
    /\ pending = NoExc /\ result = "none"
    /\ fs = [q \in AllPaths |-> Absent] /\ pre = fs
    /\ main_xml = "" /\ extra_xmls = << >> /\ pricing_engine_xml = NoArg
    /\ dry = FALSE /\ use_python = FALSE /\ vre_exe = LocatedExe
    /\ device = "" /\ idx = 0 /\ backups = << >> /\ ridx = 0
    /\ launches = << >> /\ log = << >>
    /\ restoreFault = FALSE /\ wrappers = NoWrappers
    /\ probe = NoProbe /\ det = NoDet
    /\ environ = NoEnviron /\ inherited = NoEnviron /\ located = NotFound
    /\ pin = << RootNode >> /\ pout = << >> /\ pfn = "none"
    /\ env_vars = << >> /\ env_prev = << >>

\* run_example(example): started says whether subprocess.call could start the
\* child, code is the child's exit code
RunExample ==
    /\ pc = "idle"
    /\ \E ex \in Examples, started \in BOOLEAN, code \in ExitCodes :
         LET dir      == abspath(cwd, join(Abs(cwd), << ex >>)).parts
             entered  == chdir_ok(host, dir)
             launched == entered /\ started
             after    == IF launched THEN Bound(code) ELSE Unbound
         IN  /\ example' = ex
             /\ current_dir' = cwd
             /\ launches' = IF entered
                            THEN Append(launches,
                                        Launch(<< Python, "run.py" >>, started,
                                               IF started THEN code ELSE 0))
                            ELSE launches
             /\ exit_code' = after
             \* finally: os.chdir(current_dir), wherever the try block left off
             /\ cwd' = current_dir'
             \* return exit_code
             /\ IF after.bound
                THEN result' = "returned" /\ pending' = NoExc
                ELSE result' = "raised" /\ pending' = Exc("UnboundLocalError")
    /\ pc' = "done" /\ call' = "run_example"
    /\ UNCHANGED << fs, dry, use_python, vre_exe, main_xml, extra_xmls, probe,
                    device, idx, backups, ridx, pre, log, restoreFault, pin,
                    pout, pfn, det, host, environ, inherited, located,
                    wrappers, pricing_engine_xml, env_vars, env_prev >>

SpecExample == InitExample /\ [][RunExample]_vars

NamedVars == {env_vars[i][1] : i \in 1..Len(env_vars)}

\* C29: when a `with env(vars)` block has been left, normally or by an
\* exception, every variable named in vars has the value it had on entry (a
\* variable unset on entry is unset again), and neither entering nor leaving
\* the block changes a variable that vars does not name.
C29_EnvRestored ==
    [][ /\ pc' = "done" => \A k \in NamedVars : environ'[k] = inherited[k]
        /\ pc \in {"idle", "exit"} =>
              \A k \in EnvNames \ NamedVars : environ'[k] = environ[k] ]_vars

\* the body raised; a variable that was unset on entry and set for the block
\* is unset again
C29_Witness ==
    /\ call = "env" /\ pc = "done" /\ pending.type = "Exception"
    /\ \E i \in 1..Len(env_vars) :
          /\ env_vars[i][2].kind = "int"
          /\ inherited[env_vars[i][1]] = Unset
          /\ environ[env_vars[i][1]] = Unset

\* C30: after run_example(example) the working directory is the one at call
\* time and the call returns the exit code of the example's child process,
\* also when the example directory cannot be entered or the child cannot be
\* started.
C30_CwdKeptCodeReturned ==
    (call = "run_example" /\ pc = "done") =>
        /\ cwd = current_dir
        /\ result = "returned"
        /\ exit_code.bound
        /\ launches # << >>
        /\ exit_code.v = launches[Len(launches)].code
====
